---- MODULE Spec2Model ----
(***************************************************************************)
(* DNS-01 provider adapters (inwx, netcup, hostingde, checkdomain):        *)
(* Present / CleanUp of each adapter as a state machine over the           *)
(* provider's zone, the provider session and the adapter's record-ID       *)
(* cache.  Every provider request is one atomic step of the calling        *)
(* goroutine; calls on one adapter instance interleave at those steps.     *)
(***************************************************************************)
EXTENDS Integers, Sequences, FiniteSets, TLC

VARIABLES
  config,    \* the *Config handed to NewDNSProviderConfig
  built,     \* what NewDNSProviderConfig returned
  adapter,   \* which adapter the instance under test is
  active,    \* the goroutines the driver uses for calls on this instance
  zone,      \* the provider's TXT records: a set of [id, name, type, content]
  nextId,    \* the next record id the provider assigns
  session,   \* provider sessions that are logged in
  cache,     \* recordIDs / domainIDMapping: a map, as a set of <<key, id>>
  mu,        \* holder of recordIDsMu / domainIDMu (0: unlocked)
  crashed,   \* the Go runtime has thrown a fatal error
  ncalls,    \* number of calls the driver has started
  pc,        \* per goroutine: position in Present / CleanUp
  call,      \* per goroutine: the call's arguments
  loc,       \* per goroutine: the call's local variables and return value
  hist,      \* per goroutine: what the running call has done so far
  prev       \* per goroutine: summary of its previous, completed call

vars == <<config, built, adapter, active, zone, nextId, session, cache, mu, crashed,
          ncalls, pc, call, loc, hist, prev>>

\* ------------------------------------------------------------------ bounds

MaxCalls == 2

\* ---------------------------------------------------------------- strings
\* A string is a sequence of tokens: DNS labels, "." and the quote character.

Dot == <<".">>
QuoteChar == <<"\"">>

Fqdn1 == <<"_acme-challenge", ".", "example", ".", "com", ".">>
Fqdn2 == <<"_acme-challenge", ".", "www", ".", "example", ".", "com", ".">>
Fqdns == {Fqdn1, Fqdn2}

Value1 == <<"abc123">>
Value2 == <<"xyz789">>
Values == {Value1, Value2}

AuthZone == <<"example", ".", "com", ".">>

Threads == {1, 2}
Adapters == {"inwx", "netcup", "hostingde", "checkdomain"}
Ops == {"Present", "CleanUp"}

Nil == "nil"
EmptyString == <<>>

\* dns01.UnFqdn: the name without its trailing dot.
UnFqdn(name) ==
  IF Len(name) > 0 /\ name[Len(name)] = "."
  THEN SubSeq(name, 1, Len(name) - 1)
  ELSE name

\* Whether old occurs in s at position i.
OccursAt(s, old, i) ==
  /\ i + Len(old) - 1 <= Len(s)
  /\ SubSeq(s, i, i + Len(old) - 1) = old

\* strings.Replace(s, old, new, 1): the first occurrence of old replaced.
ReplaceFirst(s, old, new) ==
  LET hits == {i \in 1..Len(s) : OccursAt(s, old, i)}
  IN IF hits = {} \/ old = <<>>
     THEN s
     ELSE LET i == CHOOSE j \in hits : \A k \in hits : j <= k
          IN SubSeq(s, 1, i - 1) \o new \o SubSeq(s, i + Len(old), Len(s))

\* fmt.Sprintf(`"%s"`, value) and `"` + value + `"`.
Quoted(value) == QuoteChar \o value \o QuoteChar

\* dns01.FindZoneByFqdn on success: the authoritative zone of the name.
FindZoneByFqdn(fqdn) == AuthZone

\* ----------------------------------------------------------- the provider

TXT == "TXT"

Rec(id, name, content) ==
  [id |-> id, name |-> name, type |-> TXT, content |-> content]

RECURSIVE SortedById(_)
\* A set of records as the list the provider returns, in id order.
SortedById(S) ==
  IF S = {} THEN <<>>
  ELSE LET r == CHOOSE x \in S : \A y \in S : x.id <= y.id
       IN <<r>> \o SortedById(S \ {r})

Matching(z, name, content) ==
  {r \in z : r.name = name /\ r.type = TXT /\ r.content = content}

Named(z, name) == {r \in z : r.name = name /\ r.type = TXT}

Ids(z) == {r.id : r \in z}

\* One logged request: the rpc and its arguments.
Req(rpc, name, content, id, recs) ==
  [rpc |-> rpc, name |-> name, content |-> content, id |-> id, recs |-> recs]

\* How an adapter names a challenge record at its provider.
StoredName(a, fqdn) ==
  CASE a = "inwx" -> UnFqdn(fqdn)
    [] a = "netcup" -> ReplaceFirst(fqdn, Dot \o FindZoneByFqdn(fqdn), <<>>)
    [] a = "hostingde" -> UnFqdn(fqdn)
    [] a = "checkdomain" -> fqdn

\* How the provider stores the content of a record created with value.
StoredContent(a, value) ==
  IF a = "hostingde" THEN Quoted(value) ELSE value

\* ----------------------------------------------------------- construction

\* The values a credential field of a Config can have.
Credentials == {EmptyString, <<"secret">>}

\* A nil *Config.
NilConfig == [nil |-> TRUE]

\* The configurations NewDNSProviderConfig can be called with.
Configs(a) ==
  {NilConfig} \cup
  CASE a = "inwx" ->
         [nil : {FALSE}, Username : Credentials, Password : Credentials]
    [] a = "netcup" ->
         [nil : {FALSE}, Customer : Credentials, Key : Credentials,
          Password : Credentials]
    [] a = "hostingde" ->
         [nil : {FALSE}, APIKey : Credentials, ZoneName : Credentials]
    [] a = "checkdomain" ->
         [nil : {FALSE}, Endpoint : {"nil", "url"}, Token : Credentials,
          HTTPClient : {"nil", "custom"}]

\* A configuration with every field set.
DefaultConfig(a) ==
  CASE a = "inwx" ->
         [nil |-> FALSE, Username |-> <<"secret">>, Password |-> <<"secret">>]
    [] a = "netcup" ->
         [nil |-> FALSE, Customer |-> <<"secret">>, Key |-> <<"secret">>,
          Password |-> <<"secret">>]
    [] a = "hostingde" ->
         [nil |-> FALSE, APIKey |-> <<"secret">>, ZoneName |-> <<"secret">>]
    [] a = "checkdomain" ->
         [nil |-> FALSE, Endpoint |-> "url", Token |-> <<"secret">>,
          HTTPClient |-> "custom"]

\* make(map[string]string), make(map[string]int): a map without entries.
MakeMap == {}

\* return nil, errors.New(...)
NoProvider(c, e) ==
  [provider |-> "nil", err |-> e, config |-> c, recordIDs |-> MakeMap,
   panics |-> FALSE]

\* return &DNSProvider{config: config, ...}, nil
Provider(c, m) ==
  [provider |-> "DNSProvider", err |-> Nil, config |-> c, recordIDs |-> m,
   panics |-> FALSE]

\* A nil pointer dereference: the call does not return.
Panics(c) ==
  [provider |-> "nil", err |-> Nil, config |-> c, recordIDs |-> MakeMap,
   panics |-> TRUE]

\* inwx.NewDNSProviderConfig; the adapter holds no map.
InwxNewDNSProviderConfig(c) ==
  IF c.nil THEN NoProvider(c, "ErrConfigNil")
  ELSE IF c.Username = EmptyString \/ c.Password = EmptyString
       THEN NoProvider(c, "ErrCredentialsMissing")
       ELSE Provider(c, MakeMap)

\* netcup.NewDNSProviderConfig; internal.NewClient refuses an empty
\* customer, key or password.
NetcupNewDNSProviderConfig(c) ==
  IF c.nil THEN NoProvider(c, "ErrConfigNil")
  ELSE IF c.Customer = EmptyString \/ c.Key = EmptyString
            \/ c.Password = EmptyString
       THEN NoProvider(c, "ErrCredentialsMissing")
       ELSE Provider(c, MakeMap)

\* A hostingde constructor that does not look at ZoneName.
HostingdeNewDNSProviderConfigAnyZone(c) ==
  IF c.nil THEN NoProvider(c, "ErrConfigNil")
  ELSE IF c.APIKey = EmptyString
       THEN NoProvider(c, "ErrAPIKeyMissing")
       ELSE Provider(c, MakeMap)

\* hostingde.NewDNSProviderConfig
HostingdeNewDNSProviderConfig(c) ==
  IF c.nil THEN NoProvider(c, "ErrConfigNil")
  ELSE IF c.APIKey = EmptyString
       THEN NoProvider(c, "ErrAPIKeyMissing")
       ELSE IF c.ZoneName = EmptyString
            THEN NoProvider(c, "ErrZoneNameMissing")
            ELSE Provider(c, MakeMap)

\* checkdomain.NewDNSProviderConfig: config is dereferenced unchecked, and
\* a nil HTTPClient becomes http.DefaultClient.
CheckdomainNewDNSProviderConfig(c) ==
  IF c.nil THEN Panics(c)
  ELSE IF c.Endpoint = "nil"
       THEN NoProvider(c, "ErrInvalidEndpoint")
       ELSE IF c.Token = EmptyString
            THEN NoProvider(c, "ErrMissingToken")
            ELSE Provider([c EXCEPT !.HTTPClient =
                                      IF @ = "nil" THEN "DefaultClient" ELSE @],
                          MakeMap)

NewDNSProviderConfig(a, c) ==
  CASE a = "inwx" -> InwxNewDNSProviderConfig(c)
    [] a = "netcup" -> NetcupNewDNSProviderConfig(c)
    [] a = "hostingde" -> HostingdeNewDNSProviderConfig(c)
    [] a = "checkdomain" -> CheckdomainNewDNSProviderConfig(c)

\* The two values a call of NewDNSProviderConfig has returned.
Result(r) == [called |-> TRUE, provider |-> r.provider, err |-> r.err]

NotCalled == [called |-> FALSE, provider |-> "nil", err |-> Nil]

\* ------------------------------------------------------------ call records

NoCall == [op |-> "none", fqdn |-> <<>>, value |-> <<>>]

NoLoc ==
  [authZone |-> <<>>, sessionID |-> 0, records |-> <<>>, i |-> 0,
   err |-> Nil, lastErr |-> Nil, ret |-> Nil]

NoHist ==
  [loginOk |-> FALSE, logouts |-> 0, logoutFailed |-> FALSE, fault |-> FALSE,
   answer |-> "none", ret0 |-> Nil, reqs |-> <<>>, failedAt |-> 0,
   zone0 |-> {}, cache0 |-> {}]

NoPrev ==
  [op |-> "none", fqdn |-> <<>>, value |-> <<>>, ret |-> Nil,
   fault |-> FALSE, zone0 |-> {}]

Running(t) == pc[t] \notin {"idle", "done"}

FirstPc(a) ==
  CASE a = "inwx" -> "zone"
    [] a = "netcup" -> "zone"
    [] a = "hostingde" -> "getZone"
    [] a = "checkdomain" -> "getDomainID"

\* The records a zone can hold before the first call.
PreExisting == {<<Fqdn1, Value1>>, <<Fqdn1, Value2>>}

RECURSIVE Numbered(_, _, _)
Numbered(a, S, n) ==
  IF S = {} THEN {}
  ELSE LET p == CHOOSE x \in S : TRUE
       IN {Rec(n, StoredName(a, p[1]), StoredContent(a, p[2]))}
            \cup Numbered(a, S \ {p}, n + 1)

\* The state after NewDNSProviderConfig has returned an adapter for a
\* complete configuration.
InitWith(threads) ==
  /\ adapter \in Adapters
  /\ config = NewDNSProviderConfig(adapter, DefaultConfig(adapter)).config
  /\ built = Result(NewDNSProviderConfig(adapter, DefaultConfig(adapter)))
  /\ active = threads
  /\ \E S \in SUBSET PreExisting :
       /\ zone = Numbered(adapter, S, 1)
       /\ nextId = Cardinality(S) + 1
  /\ session = {}
  /\ cache = NewDNSProviderConfig(adapter, DefaultConfig(adapter)).recordIDs
  /\ mu = 0
  /\ crashed = FALSE
  /\ ncalls = 0
  /\ pc = [t \in Threads |-> "idle"]
  /\ call = [t \in Threads |-> NoCall]
  /\ loc = [t \in Threads |-> NoLoc]
  /\ hist = [t \in Threads |-> NoHist]
  /\ prev = [t \in Threads |-> NoPrev]

\* The driver starts Present or CleanUp on goroutine t.  It never runs two
\* calls for one fqdn at the same time.
StartCall(t) ==
  /\ t \in active /\ ~crashed /\ ~Running(t)
  /\ built.provider = "DNSProvider"
  /\ ncalls < MaxCalls
  /\ \E op \in Ops, fqdn \in Fqdns, value \in Values :
       /\ \A u \in Threads \ {t} : Running(u) => call[u].fqdn # fqdn
       /\ call' = [call EXCEPT ![t] = [op |-> op, fqdn |-> fqdn, value |-> value]]
  /\ prev' = [prev EXCEPT ![t] =
                IF pc[t] = "done"
                THEN [op |-> call[t].op, fqdn |-> call[t].fqdn,
                      value |-> call[t].value, ret |-> loc[t].ret,
                      fault |-> hist[t].fault, zone0 |-> hist[t].zone0]
                ELSE @]
  /\ pc' = [pc EXCEPT ![t] = FirstPc(adapter)]
  /\ loc' = [loc EXCEPT ![t] = NoLoc]
  /\ hist' = [hist EXCEPT ![t] = [NoHist EXCEPT !.zone0 = zone, !.cache0 = cache]]
  /\ ncalls' = ncalls + 1
  /\ UNCHANGED <<config, built, adapter, active, zone, nextId, session, cache, mu, crashed>>

\* A return statement: the result is fixed, deferred functions run next.
Returned(l, e) == [l EXCEPT !.err = e, !.ret = e]

\* The request r joins the call's log; h is the history after the step that
\* issued it.  failedAt is the place in the log of the first request that
\* failed or was answered with an error (an update answered without the
\* created record is an answered request, not a failed one).
Logged(h, r) ==
  [h EXCEPT !.reqs = Append(@, r),
            !.failedAt = IF /\ @ = 0
                            /\ \/ h.fault /\ h.answer # "unconfirmed"
                               \/ h.ret0 # Nil
                         THEN Len(h.reqs) + 1 ELSE @]

\* ------------------------------------------------------------------- inwx

Client == "client"

\* Present / CleanUp: dns01.FindZoneByFqdn(fqdn).
InwxFindZone(t) ==
  /\ adapter = "inwx" /\ pc[t] = "zone" /\ ~crashed
  /\ \E ok \in BOOLEAN :
       IF ok
       THEN /\ loc' = [loc EXCEPT ![t].authZone = FindZoneByFqdn(call[t].fqdn)]
            /\ pc' = [pc EXCEPT ![t] = "login"]
            /\ UNCHANGED hist
       ELSE /\ loc' = [loc EXCEPT ![t] = Returned(@, "ErrFindZone")]
            /\ hist' = [hist EXCEPT ![t].fault = TRUE, ![t].ret0 = "ErrFindZone"]
            /\ pc' = [pc EXCEPT ![t] = "done"]
  /\ UNCHANGED <<config, built, adapter, active, zone, nextId, session, cache, mu, crashed,
                 ncalls, call, prev>>

\* A Login whose deferred Logout is registered before the error check.
InwxAfterLoginDeferFirst(ok, op) ==
  IF ~ok THEN "logout"
  ELSE IF op = "Present" THEN "create" ELSE "info"

\* Where the call goes after Login: an error returns at once, before the
\* deferred Logout is registered.
InwxAfterLogin(ok, op) ==
  IF ~ok THEN "done"
  ELSE IF op = "Present" THEN "create" ELSE "info"

\* Present / CleanUp: d.client.Account.Login().
InwxLogin(t) ==
  /\ adapter = "inwx" /\ pc[t] = "login" /\ ~crashed
  /\ \E ok \in BOOLEAN :
       IF ok
       THEN /\ session' = session \cup {Client}
            /\ hist' = [hist EXCEPT ![t] =
                          Logged([@ EXCEPT !.loginOk = TRUE],
                                 Req("Login", <<>>, <<>>, 0, <<>>))]
            /\ pc' = [pc EXCEPT ![t] = InwxAfterLogin(TRUE, call[t].op)]
            /\ UNCHANGED loc
       ELSE /\ loc' = [loc EXCEPT ![t] = Returned(@, "ErrLogin")]
            /\ hist' = [hist EXCEPT ![t] =
                          Logged([@ EXCEPT !.fault = TRUE, !.ret0 = "ErrLogin"],
                                 Req("Login", <<>>, <<>>, 0, <<>>))]
            /\ pc' = [pc EXCEPT ![t] = InwxAfterLogin(FALSE, call[t].op)]
            /\ UNCHANGED session
  /\ UNCHANGED <<config, built, adapter, active, zone, nextId, cache, mu, crashed,
                 ncalls, call, prev>>

\* A return of an error that leaves without running the deferred Logout.
DeferredLogoutSkippedOnError(e) == IF e = Nil THEN "logout" ELSE "done"

\* The deferred Logout runs after every return inside the bracket.
DeferredLogout(e) == "logout"

\* Present taking every *goinwx.ErrorResponse for "Object exists".
InwxCreateResultAnyResponseOk(answer) ==
  CASE answer = "ok" -> Nil
    [] answer = "Object exists" -> Nil
    [] answer = "ErrorResponse" -> Nil
    [] OTHER -> "ErrCreate"

\* What Present returns for the answer of CreateRecord.
InwxCreateResult(answer) ==
  CASE answer = "ok" -> Nil
    [] answer = "Object exists" -> Nil
    [] answer = "ErrorResponse" -> "ErrCreate"
    [] OTHER -> "ErrCreate"

\* The answers the provider can give to CreateRecord(name, content).
InwxCreateAnswers(name, content) ==
  IF Client \notin session
  THEN {"ErrorResponse"}
  ELSE {"error", "ErrorResponse"}
         \cup (IF Matching(zone, name, content) # {}
               THEN {"Object exists"} ELSE {"ok"})

\* Present: d.client.Nameservers.CreateRecord(request) and the return.
InwxCreateRecord(t) ==
  /\ adapter = "inwx" /\ pc[t] = "create" /\ ~crashed
  /\ LET name == UnFqdn(call[t].fqdn)
         content == call[t].value
     IN \E answer \in InwxCreateAnswers(name, content) :
          LET e == InwxCreateResult(answer)
          IN /\ zone' = IF answer = "ok"
                        THEN zone \cup {Rec(nextId, name, content)} ELSE zone
             /\ nextId' = IF answer = "ok" THEN nextId + 1 ELSE nextId
             /\ loc' = [loc EXCEPT ![t] = Returned(@, e)]
             /\ hist' = [hist EXCEPT ![t] =
                           Logged([@ EXCEPT
                                     !.fault = @ \/ (answer \in {"error", "ErrorResponse"}
                                                       /\ Client \in session),
                                     !.answer = answer, !.ret0 = e],
                                  Req("CreateRecord", name, content, 0, <<>>))]
             /\ pc' = [pc EXCEPT ![t] = DeferredLogout(e)]
  /\ UNCHANGED <<config, built, adapter, active, session, cache, mu, crashed, ncalls, call, prev>>

\* A CleanUp that takes a response without records for an error.
InwxCleanUpResultNeedsRecord(lastErr, n) ==
  IF n = 0 THEN "ErrNoRecord" ELSE lastErr

\* return lastErr, after a loop over n records.
InwxCleanUpResult(lastErr, n) == lastErr

\* A loop that is left at the first DeleteRecord that fails.
InwxDeleteLoopOverOnError(i, n, ok) == i = n \/ ~ok

\* Whether round i was the last of the loop over n records, whatever
\* DeleteRecord answered.
InwxDeleteLoopOver(i, n, ok) == i = n

\* CleanUp: d.client.Nameservers.Info(domain, name, type TXT).
InwxInfo(t) ==
  /\ adapter = "inwx" /\ pc[t] = "info" /\ ~crashed
  /\ LET name == UnFqdn(call[t].fqdn)
         found == SortedById(Named(zone, name))
         req == Req("Info", name, <<>>, 0, <<>>)
         e0 == InwxCleanUpResult(loc[t].lastErr, 0)
     IN \E ok \in (IF Client \in session THEN BOOLEAN ELSE {FALSE}) :
          IF ok
          THEN /\ loc' = [loc EXCEPT ![t] =
                            IF found = <<>>
                            THEN Returned([@ EXCEPT !.records = found], e0)
                            ELSE [@ EXCEPT !.records = found, !.i = 1]]
               /\ hist' = [hist EXCEPT ![t] =
                             Logged([@ EXCEPT !.ret0 = IF found = <<>> THEN e0 ELSE @],
                                    req)]
               /\ pc' = [pc EXCEPT ![t] =
                           IF found = <<>> THEN DeferredLogout(e0) ELSE "delete"]
          ELSE /\ loc' = [loc EXCEPT ![t] = Returned(@, "ErrInfo")]
               /\ hist' = [hist EXCEPT ![t] =
                             Logged([@ EXCEPT !.fault = @ \/ Client \in session,
                                              !.ret0 = "ErrInfo"], req)]
               /\ pc' = [pc EXCEPT ![t] = DeferredLogout("ErrInfo")]
  /\ UNCHANGED <<config, built, adapter, active, zone, nextId, session, cache, mu, crashed,
                 ncalls, call, prev>>

\* CleanUp: one round of the loop, d.client.Nameservers.DeleteRecord(record.ID),
\* and the return after the last round.
InwxDeleteRecord(t) ==
  /\ adapter = "inwx" /\ pc[t] = "delete" /\ ~crashed
  /\ LET id == loc[t].records[loc[t].i].id
         can == Client \in session /\ id \in Ids(zone)
         n == Len(loc[t].records)
     IN \E ok \in (IF can THEN BOOLEAN ELSE {FALSE}) :
          LET lastErr == IF ok THEN loc[t].lastErr ELSE "ErrDelete"
              last == InwxDeleteLoopOver(loc[t].i, n, ok)
              e == InwxCleanUpResult(lastErr, n)
          IN /\ zone' = IF ok THEN {r \in zone : r.id # id} ELSE zone
             /\ loc' = [loc EXCEPT ![t] =
                          IF last
                          THEN Returned([@ EXCEPT !.lastErr = lastErr], e)
                          ELSE [@ EXCEPT !.lastErr = lastErr, !.i = @ + 1,
                                         !.err = IF ok THEN Nil ELSE "ErrDelete"]]
             /\ hist' = [hist EXCEPT ![t] =
                           Logged([@ EXCEPT !.fault = @ \/ (can /\ ~ok),
                                            !.ret0 = IF last THEN e ELSE @],
                                  Req("DeleteRecord", <<>>, <<>>, id, <<>>))]
             /\ pc' = [pc EXCEPT ![t] =
                         IF last THEN DeferredLogout(e) ELSE "delete"]
  /\ UNCHANGED <<config, built, adapter, active, nextId, session, cache, mu, crashed,
                 ncalls, call, prev>>

\* The deferred function: d.client.Account.Logout(); its error is only logged.
InwxLogout(t) ==
  /\ adapter = "inwx" /\ pc[t] = "logout" /\ ~crashed
  /\ \E ok \in BOOLEAN :
       /\ session' = IF ok THEN session \ {Client} ELSE session
       /\ hist' = [hist EXCEPT ![t] =
                     Logged([@ EXCEPT !.logouts = @ + 1,
                                      !.logoutFailed = ~ok],
                            Req("Logout", <<>>, <<>>, 0, <<>>))]
  /\ pc' = [pc EXCEPT ![t] = "done"]
  /\ UNCHANGED <<config, built, adapter, active, zone, nextId, cache, mu, crashed,
                 ncalls, call, loc, prev>>

Inwx(t) ==
  \/ InwxFindZone(t)
  \/ InwxLogin(t)
  \/ InwxCreateRecord(t)
  \/ InwxInfo(t)
  \/ InwxDeleteRecord(t)
  \/ InwxLogout(t)

\* ----------------------------------------------------------------- netcup

\* A record as the netcup client sends and receives it.
NetcupRecord(id, hostname, destination, del) ==
  [id |-> id, name |-> hostname, type |-> TXT, content |-> destination,
   del |-> del]

RECURSIVE AsNetcup(_)
AsNetcup(rs) ==
  IF rs = <<>> THEN <<>>
  ELSE <<NetcupRecord(rs[1].id, rs[1].name, rs[1].content, FALSE)>>
         \o AsNetcup(Tail(rs))

\* internal.GetDNSRecordIdx: the index of the first record with the
\* hostname, type and destination of the given one; 0 when there is none.
GetDNSRecordIdx(records, record) ==
  LET hits == {i \in 1..Len(records) :
                 /\ records[i].name = record.name
                 /\ records[i].type = record.type
                 /\ records[i].content = record.content}
  IN IF hits = {} THEN 0 ELSE CHOOSE i \in hits : \A j \in hits : i <= j

\* hostname := strings.Replace(fqdn, "."+zone, "", 1)
NetcupHostname(fqdn, authZone) == ReplaceFirst(fqdn, Dot \o authZone, <<>>)

SeqRange(s) == {s[i] : i \in 1..Len(s)}

\* The provider's UpdateDNSRecord on a valid request: records flagged for
\* deletion are removed, records without an id are created.
NetcupApplied(z, records, n) ==
  LET dels == {r.id : r \in {x \in SeqRange(records) : x.del}}
      news == {r \in SeqRange(records) : r.id = 0 /\ ~r.del}
  IN {x \in z : x.id \notin dels}
       \cup (IF news = {} THEN {}
             ELSE LET r == CHOOSE x \in news : TRUE
                  IN {Rec(n, r.name, r.content)})

NetcupCreates(records) ==
  {r \in SeqRange(records) : r.id = 0 /\ ~r.del}

\* The request names a record the zone no longer holds.
NetcupStale(z, records) ==
  \E r \in SeqRange(records) : r.id # 0 /\ r.id \notin Ids(z)

\* The request creates a record the zone already holds.
Duplicates(z, name, content) == Matching(z, name, content) # {}

\* What a provider may do with the creation of a record it already holds:
\* store a second one, refuse the request, or answer success and keep one.
DuplicateAnswers == {"accepted", "rejected", "absorbed"}

WithoutCreates(records) == SelectSeq(records, LAMBDA r : r.id # 0 \/ r.del)

\* Present / CleanUp: dns01.FindZoneByFqdn(fqdn).
NetcupFindZone(t) ==
  /\ adapter = "netcup" /\ pc[t] = "zone" /\ ~crashed
  /\ \E ok \in BOOLEAN :
       IF ok
       THEN /\ loc' = [loc EXCEPT ![t].authZone = FindZoneByFqdn(call[t].fqdn)]
            /\ pc' = [pc EXCEPT ![t] = "login"]
            /\ UNCHANGED hist
       ELSE /\ loc' = [loc EXCEPT ![t] = Returned(@, "ErrFindZone")]
            /\ hist' = [hist EXCEPT ![t].fault = TRUE, ![t].ret0 = "ErrFindZone"]
            /\ pc' = [pc EXCEPT ![t] = "done"]
  /\ UNCHANGED <<config, built, adapter, active, zone, nextId, session, cache, mu, crashed,
                 ncalls, call, prev>>

\* Present / CleanUp: sessionID, err := d.client.Login().
NetcupLogin(t) ==
  /\ adapter = "netcup" /\ pc[t] = "login" /\ ~crashed
  /\ \E ok \in BOOLEAN :
       IF ok
       THEN /\ session' = session \cup {t}
            /\ loc' = [loc EXCEPT ![t].sessionID = t]
            /\ hist' = [hist EXCEPT ![t] =
                          Logged([@ EXCEPT !.loginOk = TRUE],
                                 Req("Login", <<>>, <<>>, 0, <<>>))]
            /\ pc' = [pc EXCEPT ![t] = "getRecords"]
       ELSE /\ loc' = [loc EXCEPT ![t] = Returned(@, "ErrLogin")]
            /\ hist' = [hist EXCEPT ![t] =
                          Logged([@ EXCEPT !.fault = TRUE, !.ret0 = "ErrLogin"],
                                 Req("Login", <<>>, <<>>, 0, <<>>))]
            /\ pc' = [pc EXCEPT ![t] = "done"]
            /\ UNCHANGED session
  /\ UNCHANGED <<config, built, adapter, active, zone, nextId, cache, mu, crashed,
                 ncalls, call, prev>>

\* Present: d.client.GetDNSRecords(zone, sessionID); an error is logged and
\* ignored, and the new record is appended to whatever was fetched.
NetcupPresentGetDNSRecords(t) ==
  /\ adapter = "netcup" /\ pc[t] = "getRecords" /\ call[t].op = "Present"
  /\ ~crashed
  /\ LET valid == loc[t].sessionID \in session
         record == NetcupRecord(0, NetcupHostname(call[t].fqdn, loc[t].authZone),
                                call[t].value, FALSE)
         req == Req("GetDNSRecords", UnFqdn(loc[t].authZone), <<>>, 0, <<>>)
     IN \E ok \in (IF valid THEN BOOLEAN ELSE {FALSE}) :
          /\ loc' = [loc EXCEPT ![t] =
                       [@ EXCEPT !.records =
                                   (IF ok THEN AsNetcup(SortedById(zone)) ELSE <<>>)
                                     \o <<record>>,
                                 !.err = IF ok THEN Nil ELSE "ErrGetDNSRecords"]]
          /\ hist' = [hist EXCEPT ![t] =
                        Logged([@ EXCEPT !.fault = @ \/ (valid /\ ~ok),
                                         !.answer = IF ok THEN "fetched" ELSE "fetch failed"],
                               req)]
          /\ pc' = [pc EXCEPT ![t] = "update"]
  /\ UNCHANGED <<config, built, adapter, active, zone, nextId, session, cache, mu, crashed,
                 ncalls, call, prev>>

\* CleanUp: d.client.GetDNSRecords, then internal.GetDNSRecordIdx and the
\* DeleteRecord flag on the record found.
NetcupCleanUpGetDNSRecords(t) ==
  /\ adapter = "netcup" /\ pc[t] = "getRecords" /\ call[t].op = "CleanUp"
  /\ ~crashed
  /\ LET valid == loc[t].sessionID \in session
         records == AsNetcup(SortedById(zone))
         record == NetcupRecord(0, NetcupHostname(call[t].fqdn, loc[t].authZone),
                                call[t].value, FALSE)
         idx == GetDNSRecordIdx(records, record)
         req == Req("GetDNSRecords", UnFqdn(loc[t].authZone), <<>>, 0, <<>>)
     IN \E ok \in (IF valid THEN BOOLEAN ELSE {FALSE}) :
          LET e == IF ~ok THEN "ErrGetDNSRecords"
                   ELSE IF idx = 0 THEN "ErrRecordIdx" ELSE Nil
          IN /\ loc' = [loc EXCEPT ![t] =
                          IF e # Nil
                          THEN Returned([@ EXCEPT !.records =
                                           IF ok THEN records ELSE <<>>], e)
                          ELSE [@ EXCEPT !.records =
                                           [records EXCEPT ![idx].del = TRUE],
                                         !.i = idx]]
             /\ hist' = [hist EXCEPT ![t] =
                           Logged([@ EXCEPT !.fault = @ \/ (valid /\ ~ok),
                                            !.ret0 = e], req)]
             /\ pc' = [pc EXCEPT ![t] =
                         IF e # Nil THEN DeferredLogout(e) ELSE "update"]
  /\ UNCHANGED <<config, built, adapter, active, zone, nextId, session, cache, mu, crashed,
                 ncalls, call, prev>>

\* A CleanUp that hands the whole fetched list to UpdateDNSRecord.
NetcupUpdateRecordsWholeList(op, l) == l.records

\* The records Present / CleanUp hand to UpdateDNSRecord.
NetcupUpdateRecords(op, l) ==
  IF op = "Present" THEN l.records ELSE <<l.records[l.i]>>

\* Present / CleanUp: d.client.UpdateDNSRecord(sessionID, zone, records) and
\* the return.
NetcupUpdateDNSRecord(t) ==
  /\ adapter = "netcup" /\ pc[t] = "update" /\ ~crashed
  /\ LET records == NetcupUpdateRecords(call[t].op, loc[t])
         valid == loc[t].sessionID \in session /\ ~NetcupStale(zone, records)
         dup == \E r \in NetcupCreates(records) : Duplicates(zone, r.name, r.content)
         req == Req("UpdateDNSRecord", UnFqdn(loc[t].authZone), <<>>, 0, records)
     IN \E ok \in (IF valid THEN BOOLEAN ELSE {FALSE}),
           onDup \in (IF dup THEN DuplicateAnswers ELSE {"accepted"}) :
          LET done == ok /\ onDup # "rejected"
              e == IF done THEN Nil ELSE "ErrUpdateDNSRecord"
              sent == IF onDup = "absorbed" THEN WithoutCreates(records) ELSE records
          IN /\ ok \/ onDup = "accepted"
             /\ zone' = IF done THEN NetcupApplied(zone, sent, nextId) ELSE zone
             /\ nextId' = IF done /\ NetcupCreates(sent) # {}
                          THEN nextId + 1 ELSE nextId
             /\ loc' = [loc EXCEPT ![t] = Returned(@, e)]
             /\ hist' = [hist EXCEPT ![t] =
                           Logged([@ EXCEPT !.fault = @ \/ (valid /\ ~ok),
                                            !.ret0 = e], req)]
             /\ pc' = [pc EXCEPT ![t] = DeferredLogout(e)]
  /\ UNCHANGED <<config, built, adapter, active, session, cache, mu, crashed, ncalls, call, prev>>

\* A deferred function whose assignment reaches the call's result, as it
\* would with a named result.
NetcupLogoutEffectOnResult(l, e) ==
  [l EXCEPT !.err = e, !.ret = IF e = Nil THEN @ ELSE e]

\* The deferred function assigns Logout's error to the local err and logs
\* it; the call's result was fixed by the return statement.
NetcupLogoutEffect(l, e) == [l EXCEPT !.err = e]

\* The deferred function: err = d.client.Logout(sessionID).
NetcupLogout(t) ==
  /\ adapter = "netcup" /\ pc[t] = "logout" /\ ~crashed
  /\ \E ok \in BOOLEAN :
       /\ session' = IF ok THEN session \ {loc[t].sessionID} ELSE session
       /\ loc' = [loc EXCEPT ![t] =
                    NetcupLogoutEffect(@, IF ok THEN Nil ELSE "ErrLogout")]
       /\ hist' = [hist EXCEPT ![t] =
                     Logged([@ EXCEPT !.logouts = @ + 1,
                                      !.logoutFailed = ~ok],
                            Req("Logout", <<>>, <<>>, 0, <<>>))]
  /\ pc' = [pc EXCEPT ![t] = "done"]
  /\ UNCHANGED <<config, built, adapter, active, zone, nextId, cache, mu, crashed,
                 ncalls, call, prev>>

Netcup(t) ==
  \/ NetcupFindZone(t)
  \/ NetcupLogin(t)
  \/ NetcupPresentGetDNSRecords(t)
  \/ NetcupCleanUpGetDNSRecords(t)
  \/ NetcupUpdateDNSRecord(t)
  \/ NetcupLogout(t)

\* ------------------------------------------------------------- Go maps

MapHas(m, k) == \E p \in m : p[1] = k

\* m[k]: the zero value when the key is absent.
MapGet(m, k) == IF MapHas(m, k) THEN (CHOOSE p \in m : p[1] = k)[2] ELSE 0

\* m[k] = v
MapPut(m, k, v) == {p \in m : p[1] # k} \cup {<<k, v>>}

\* delete(m, k)
MapDelete(m, k) == {p \in m : p[1] # k}

\* Another goroutine is about to write the map under the mutex.
WriteEnabledElsewhere(t) ==
  \E u \in Threads \ {t} : pc[u] \in {"put", "del"}

\* -------------------------------------------------------------- hostingde

\* Whether a record of the update response is the one Present created.
HostingdeIsCreated(record, fqdn, value) ==
  record.name = UnFqdn(fqdn) /\ record.content = Quoted(value)

\* The next round of Present's loop over resp.Response.Records whose
\* condition holds, after round i; 0 when the loop is over.
HostingdeNextMatch(records, i, fqdn, value) ==
  LET hits == {j \in (i + 1)..Len(records) :
                 HostingdeIsCreated(records[j], fqdn, value)}
  IN IF hits = {} THEN 0 ELSE CHOOSE j \in hits : \A k \in hits : j <= k

\* A CleanUp that deletes only what the map has an id for.
HostingdeRecordsToDeleteIfCached(m, fqdn, value) ==
  IF MapHas(m, fqdn) THEN <<Rec(0, UnFqdn(fqdn), Quoted(value))>> ELSE <<>>

\* CleanUp's RecordsToDelete.
HostingdeRecordsToDelete(m, fqdn, value) ==
  <<Rec(0, UnFqdn(fqdn), Quoted(value))>>

\* Present's RecordsToAdd.
HostingdeRecordsToAdd(fqdn, value) ==
  <<Rec(0, UnFqdn(fqdn), value)>>

\* A call that goes on after getZone has failed.
HostingdeAfterGetZoneIgnoringError(ok, op) ==
  IF op = "Present" THEN "updateZone" ELSE "lock"

\* Where the call goes after getZone: an error returns at once.
HostingdeAfterGetZone(ok, op) ==
  IF ~ok THEN "done"
  ELSE IF op = "Present" THEN "updateZone" ELSE "lock"

\* Present / CleanUp: d.getZone(zonesFind).
HostingdeGetZone(t) ==
  /\ adapter = "hostingde" /\ pc[t] = "getZone" /\ ~crashed
  /\ \E ok \in BOOLEAN :
       /\ loc' = [loc EXCEPT ![t] =
                    IF ok THEN [@ EXCEPT !.authZone = UnFqdn(AuthZone)]
                    ELSE Returned(@, "ErrGetZone")]
       /\ hist' = [hist EXCEPT ![t] =
                     Logged([@ EXCEPT !.fault = @ \/ ~ok,
                                      !.ret0 = IF ok THEN @ ELSE "ErrGetZone"],
                            Req("zoneConfigsFind", UnFqdn(AuthZone), <<>>, 0, <<>>))]
       /\ pc' = [pc EXCEPT ![t] = HostingdeAfterGetZone(ok, call[t].op)]
  /\ UNCHANGED <<config, built, adapter, active, zone, nextId, session, cache, mu, crashed,
                 ncalls, call, prev>>

\* Present: d.updateZone(req) with RecordsToAdd, and the start of the loop
\* over the response's records.
HostingdePresentUpdateZone(t) ==
  /\ adapter = "hostingde" /\ pc[t] = "updateZone" /\ call[t].op = "Present"
  /\ ~crashed
  /\ LET add == HostingdeRecordsToAdd(call[t].fqdn, call[t].value)
         name == add[1].name
         content == Quoted(add[1].content)
         dup == Duplicates(zone, name, content)
         req == Req("zoneUpdate", loc[t].authZone, <<>>, 0, add)
     IN \E answer \in {"ok", "unconfirmed", "error"}
                        \cup (IF dup THEN {"rejected", "absorbed"} ELSE {}) :
          LET done == answer \in {"ok", "unconfirmed", "absorbed"}
              after == IF answer = "absorbed" THEN zone
                       ELSE zone \cup {Rec(nextId, name, content)}
              records == IF answer \in {"ok", "absorbed"}
                         THEN SortedById(after) ELSE <<>>
              first == HostingdeNextMatch(records, 0, call[t].fqdn, call[t].value)
          IN /\ zone' = IF done THEN after ELSE zone
             /\ nextId' = IF done /\ answer # "absorbed" THEN nextId + 1 ELSE nextId
             /\ loc' = [loc EXCEPT ![t] =
                          IF done
                          THEN [@ EXCEPT !.records = records, !.i = first]
                          ELSE Returned(@, "ErrUpdateZone")]
             /\ hist' = [hist EXCEPT ![t] =
                           Logged([@ EXCEPT
                                     !.fault = @ \/ answer \in {"unconfirmed", "error"},
                                     !.answer = answer,
                                     !.ret0 = IF done THEN @ ELSE "ErrUpdateZone"],
                                  req)]
             /\ pc' = [pc EXCEPT ![t] =
                         IF ~done THEN "done"
                         ELSE IF first = 0 THEN "check" ELSE "lock"]
  /\ UNCHANGED <<config, built, adapter, active, session, cache, mu, crashed, ncalls, call, prev>>

\* d.recordIDsMu.Lock()
HostingdeLock(t) ==
  /\ adapter = "hostingde" /\ pc[t] = "lock" /\ ~crashed
  /\ mu = 0
  /\ mu' = t
  /\ pc' = [pc EXCEPT ![t] = IF call[t].op = "Present" THEN "put" ELSE "del"]
  /\ UNCHANGED <<config, built, adapter, active, zone, nextId, session, cache, crashed,
                 ncalls, call, loc, hist, prev>>

\* Present: d.recordIDs[fqdn] = record.ID
HostingdePut(t) ==
  /\ adapter = "hostingde" /\ pc[t] = "put" /\ ~crashed
  /\ cache' = MapPut(cache, call[t].fqdn, loc[t].records[loc[t].i].id)
  /\ pc' = [pc EXCEPT ![t] = "unlock"]
  /\ UNCHANGED <<config, built, adapter, active, zone, nextId, session, mu, crashed,
                 ncalls, call, loc, hist, prev>>

\* A CleanUp that leaves the entry in the map until the update is answered.
HostingdeForgetKeepingEntry(m, fqdn) == m

\* What CleanUp does with the map before it submits the update.
HostingdeForget(m, fqdn) == MapDelete(m, fqdn)

\* CleanUp: delete(d.recordIDs, fqdn)
HostingdeDelete(t) ==
  /\ adapter = "hostingde" /\ pc[t] = "del" /\ ~crashed
  /\ cache' = HostingdeForget(cache, call[t].fqdn)
  /\ pc' = [pc EXCEPT ![t] = "unlock"]
  /\ UNCHANGED <<config, built, adapter, active, zone, nextId, session, mu, crashed,
                 ncalls, call, loc, hist, prev>>

\* d.recordIDsMu.Unlock(); Present goes on with its loop, CleanUp with the
\* zone update.
HostingdeUnlock(t) ==
  /\ adapter = "hostingde" /\ pc[t] = "unlock" /\ ~crashed
  /\ mu' = 0
  /\ LET next == HostingdeNextMatch(loc[t].records, loc[t].i,
                                    call[t].fqdn, call[t].value)
     IN IF call[t].op = "Present"
        THEN /\ loc' = [loc EXCEPT ![t].i = next]
             /\ pc' = [pc EXCEPT ![t] = IF next = 0 THEN "check" ELSE "lock"]
        ELSE /\ loc' = loc
             /\ pc' = [pc EXCEPT ![t] = "updateZone"]
  /\ UNCHANGED <<config, built, adapter, active, zone, nextId, session, cache, crashed,
                 ncalls, call, hist, prev>>

\* What Present returns for the id it reads back from the map.
HostingdeCheckResult(id) ==
  IF id = 0 THEN "ErrNoRecordID" ELSE Nil

\* Present: if d.recordIDs[fqdn] == "" { return error }; return nil.  The
\* map is read without the mutex: a read that races with another
\* goroutine's write either gets the value or is caught by the runtime,
\* which throws "concurrent map read and map write".
HostingdeCheck(t) ==
  /\ adapter = "hostingde" /\ pc[t] = "check" /\ ~crashed
  /\ \E fatal \in (IF WriteEnabledElsewhere(t) THEN BOOLEAN ELSE {FALSE}) :
       IF fatal
       THEN /\ crashed' = TRUE
            /\ UNCHANGED <<pc, loc, hist>>
       ELSE LET e == HostingdeCheckResult(MapGet(cache, call[t].fqdn))
            IN /\ loc' = [loc EXCEPT ![t] = Returned(@, e)]
               /\ hist' = [hist EXCEPT ![t].ret0 = e]
               /\ pc' = [pc EXCEPT ![t] = "done"]
               /\ UNCHANGED crashed
  /\ UNCHANGED <<config, built, adapter, active, zone, nextId, session, cache, mu,
                 ncalls, call, prev>>

\* CleanUp: d.updateZone(req) with RecordsToDelete, and the return.  The
\* provider deletes the records that equal the given one in name, type and
\* content; what it answers when there is none is the provider's choice.
HostingdeCleanUpUpdateZone(t) ==
  /\ adapter = "hostingde" /\ pc[t] = "updateZone" /\ call[t].op = "CleanUp"
  /\ ~crashed
  /\ LET del == HostingdeRecordsToDelete(cache, call[t].fqdn, call[t].value)
         gone == UNION {Matching(zone, del[k].name, del[k].content) :
                          k \in 1..Len(del)}
         req == Req("zoneUpdate", loc[t].authZone, <<>>, 0, del)
     IN \E answer \in {"ok", "error"} \cup (IF gone = {} THEN {"not found"} ELSE {}) :
          LET e == IF answer = "ok" THEN Nil ELSE "ErrUpdateZone"
          IN /\ zone' = IF answer = "ok" THEN zone \ gone ELSE zone
             /\ loc' = [loc EXCEPT ![t] = Returned(@, e)]
             /\ hist' = [hist EXCEPT ![t] =
                           Logged([@ EXCEPT !.fault = @ \/ answer = "error",
                                            !.answer = answer, !.ret0 = e], req)]
             /\ pc' = [pc EXCEPT ![t] = "done"]
  /\ UNCHANGED <<config, built, adapter, active, nextId, session, cache, mu, crashed,
                 ncalls, call, prev>>

Hostingde(t) ==
  \/ HostingdeGetZone(t)
  \/ HostingdePresentUpdateZone(t)
  \/ HostingdeLock(t)
  \/ HostingdePut(t)
  \/ HostingdeDelete(t)
  \/ HostingdeUnlock(t)
  \/ HostingdeCheck(t)
  \/ HostingdeCleanUpUpdateZone(t)

\* ------------------------------------------------------------ checkdomain

\* The domain the driver passes for a challenge name.
DomainOf(fqdn) == UnFqdn(AuthZone)

\* Present / CleanUp: d.getDomainIDByName(domain).
CheckdomainGetDomainID(t) ==
  /\ adapter = "checkdomain" /\ pc[t] = "getDomainID" /\ ~crashed
  /\ \E ok \in BOOLEAN :
       /\ loc' = [loc EXCEPT ![t] =
                    IF ok THEN @ ELSE Returned(@, "ErrDomainID")]
       /\ hist' = [hist EXCEPT ![t] =
                     Logged([@ EXCEPT !.fault = @ \/ ~ok,
                                      !.ret0 = IF ok THEN @ ELSE "ErrDomainID"],
                            Req("getDomainIDByName", DomainOf(call[t].fqdn),
                                <<>>, 0, <<>>))]
       /\ pc' = [pc EXCEPT ![t] = IF ok THEN "checkNameservers" ELSE "done"]
  /\ UNCHANGED <<config, built, adapter, active, zone, nextId, session, cache, mu, crashed,
                 ncalls, call, prev>>

\* Present / CleanUp: d.checkNameservers(domainID).
CheckdomainCheckNameservers(t) ==
  /\ adapter = "checkdomain" /\ pc[t] = "checkNameservers" /\ ~crashed
  /\ \E ok \in BOOLEAN :
       /\ loc' = [loc EXCEPT ![t] =
                    IF ok THEN @ ELSE Returned(@, "ErrNameservers")]
       /\ hist' = [hist EXCEPT ![t] =
                     Logged([@ EXCEPT !.fault = @ \/ ~ok,
                                      !.ret0 = IF ok THEN @ ELSE "ErrNameservers"],
                            Req("checkNameservers", <<>>, <<>>, 0, <<>>))]
       /\ pc' = [pc EXCEPT ![t] =
                   IF ~ok THEN "done"
                   ELSE IF call[t].op = "Present" THEN "createRecord"
                        ELSE "deleteTXTRecord"]
  /\ UNCHANGED <<config, built, adapter, active, zone, nextId, session, cache, mu, crashed,
                 ncalls, call, prev>>

\* What Present does with the map once the record is created: nothing.
CheckdomainAfterCreate(m, fqdn) == m

\* Present: d.createRecord(domainID, &Record{Name: fqdn, Value: value}) and
\* the return.
CheckdomainCreateRecord(t) ==
  /\ adapter = "checkdomain" /\ pc[t] = "createRecord" /\ ~crashed
  /\ LET name == call[t].fqdn
         content == call[t].value
         dup == Duplicates(zone, name, content)
     IN \E answer \in {"ok", "error"}
                        \cup (IF dup THEN {"rejected", "absorbed"} ELSE {}) :
          LET e == IF answer \in {"ok", "absorbed"} THEN Nil ELSE "ErrCreateRecord"
          IN /\ zone' = IF answer = "ok"
                        THEN zone \cup {Rec(nextId, name, content)} ELSE zone
             /\ nextId' = IF answer = "ok" THEN nextId + 1 ELSE nextId
             /\ cache' = IF e = Nil
                         THEN CheckdomainAfterCreate(cache, call[t].fqdn) ELSE cache
             /\ loc' = [loc EXCEPT ![t] = Returned(@, e)]
             /\ hist' = [hist EXCEPT ![t] =
                           Logged([@ EXCEPT !.fault = @ \/ answer = "error",
                                            !.answer = answer, !.ret0 = e],
                                  Req("createRecord", name, content, 0, <<>>))]
             /\ pc' = [pc EXCEPT ![t] = "done"]
  /\ UNCHANGED <<config, built, adapter, active, session, mu, crashed, ncalls, call, prev>>

\* A CleanUp that goes on to the map after deleteTXTRecord has failed.
CheckdomainAfterDeleteIgnoringError(answer) == "lock"

\* Where CleanUp goes after deleteTXTRecord: an error returns at once.
CheckdomainAfterDelete(answer) == IF answer = "ok" THEN "lock" ELSE "done"

\* CleanUp: d.deleteTXTRecord(domainID, fqdn, value).
CheckdomainDeleteTXTRecord(t) ==
  /\ adapter = "checkdomain" /\ pc[t] = "deleteTXTRecord" /\ ~crashed
  /\ LET gone == Matching(zone, call[t].fqdn, call[t].value)
     IN \E answer \in {"ok", "error"} \cup (IF gone = {} THEN {"not found"} ELSE {}) :
          LET e == IF answer = "ok" THEN Nil ELSE "ErrDeleteTXTRecord"
          IN /\ zone' = IF answer = "ok" THEN zone \ gone ELSE zone
             /\ loc' = [loc EXCEPT ![t] =
                          IF answer = "ok" THEN @ ELSE Returned(@, e)]
             /\ hist' = [hist EXCEPT ![t] =
                           Logged([@ EXCEPT !.fault = @ \/ answer = "error",
                                            !.answer = answer,
                                            !.ret0 = IF answer = "ok" THEN @ ELSE e],
                                  Req("deleteTXTRecord", call[t].fqdn,
                                      call[t].value, 0, <<>>))]
             /\ pc' = [pc EXCEPT ![t] = CheckdomainAfterDelete(answer)]
  /\ UNCHANGED <<config, built, adapter, active, nextId, session, cache, mu, crashed,
                 ncalls, call, prev>>

\* CleanUp: d.domainIDMu.Lock()
CheckdomainLock(t) ==
  /\ adapter = "checkdomain" /\ pc[t] = "lock" /\ ~crashed
  /\ mu = 0
  /\ mu' = t
  /\ pc' = [pc EXCEPT ![t] = "del"]
  /\ UNCHANGED <<config, built, adapter, active, zone, nextId, session, cache, crashed,
                 ncalls, call, loc, hist, prev>>

\* CleanUp: delete(d.domainIDMapping, fqdn)
CheckdomainDelete(t) ==
  /\ adapter = "checkdomain" /\ pc[t] = "del" /\ ~crashed
  /\ cache' = MapDelete(cache, call[t].fqdn)
  /\ pc' = [pc EXCEPT ![t] = "unlock"]
  /\ UNCHANGED <<config, built, adapter, active, zone, nextId, session, mu, crashed,
                 ncalls, call, loc, hist, prev>>

\* CleanUp: d.domainIDMu.Unlock(); return nil
CheckdomainUnlock(t) ==
  /\ adapter = "checkdomain" /\ pc[t] = "unlock" /\ ~crashed
  /\ mu' = 0
  /\ loc' = [loc EXCEPT ![t] = Returned(@, Nil)]
  /\ hist' = [hist EXCEPT ![t].ret0 = Nil]
  /\ pc' = [pc EXCEPT ![t] = "done"]
  /\ UNCHANGED <<config, built, adapter, active, zone, nextId, session, cache, crashed,
                 ncalls, call, prev>>

Checkdomain(t) ==
  \/ CheckdomainGetDomainID(t)
  \/ CheckdomainCheckNameservers(t)
  \/ CheckdomainCreateRecord(t)
  \/ CheckdomainDeleteTXTRecord(t)
  \/ CheckdomainLock(t)
  \/ CheckdomainDelete(t)
  \/ CheckdomainUnlock(t)

\* ---------------------------------------------------------- specification

Next ==
  \E t \in Threads :
    \/ StartCall(t)
    \/ Inwx(t)
    \/ Netcup(t)
    \/ Hostingde(t)
    \/ Checkdomain(t)

Init == InitWith({1})
InitConc == InitWith(Threads)

Spec == Init /\ [][Next]_vars
SpecConc == InitConc /\ [][Next]_vars

\* The caller builds the adapter: NewDNSProviderConfig(config).
Construct ==
  /\ ~built.called /\ ~crashed
  /\ LET r == NewDNSProviderConfig(adapter, config)
     IN IF r.panics
        THEN /\ crashed' = TRUE
             /\ UNCHANGED <<config, built, cache>>
        ELSE /\ built' = Result(r)
             /\ config' = r.config
             /\ cache' = r.recordIDs
             /\ UNCHANGED crashed
  /\ UNCHANGED <<adapter, active, zone, nextId, session, mu, ncalls, pc,
                 call, loc, hist, prev>>

\* Before construction: any configuration, no adapter and no map yet.
InitNew ==
  /\ adapter \in Adapters
  /\ config \in Configs(adapter)
  /\ built = NotCalled
  /\ active = {1}
  /\ \E S \in SUBSET PreExisting :
       /\ zone = Numbered(adapter, S, 1)
       /\ nextId = Cardinality(S) + 1
  /\ session = {}
  /\ cache = {}
  /\ mu = 0
  /\ crashed = FALSE
  /\ ncalls = 0
  /\ pc = [t \in Threads |-> "idle"]
  /\ call = [t \in Threads |-> NoCall]
  /\ loc = [t \in Threads |-> NoLoc]
  /\ hist = [t \in Threads |-> NoHist]
  /\ prev = [t \in Threads |-> NoPrev]

NextNew == Construct \/ Next

SpecNew == InitNew /\ [][NextNew]_vars

\* The labels of the names below the zone.
Labels == {"_acme-challenge", "example", "com"}

MaxLabels == 3

RECURSIVE Dotted(_)
\* The labels of a sequence, each followed by a dot.
Dotted(ls) ==
  IF ls = <<>> THEN <<>> ELSE <<Head(ls), ".">> \o Dotted(Tail(ls))

\* The fully qualified names of up to MaxLabels labels below the zone.
Names ==
  {Dotted(ls) \o AuthZone :
     ls \in UNION {[1..n -> Labels] : n \in 1..MaxLabels}}

\* A netcup adapter at the start of one Present or CleanUp for any name
\* below the zone.
InitNames ==
  /\ adapter = "netcup"
  /\ config = NewDNSProviderConfig(adapter, DefaultConfig(adapter)).config
  /\ built = Result(NewDNSProviderConfig(adapter, DefaultConfig(adapter)))
  /\ active = {1}
  /\ \E S \in SUBSET PreExisting :
       /\ zone = Numbered(adapter, S, 1)
       /\ nextId = Cardinality(S) + 1
  /\ session = {}
  /\ cache = {}
  /\ mu = 0
  /\ crashed = FALSE
  /\ ncalls = MaxCalls
  /\ pc = [t \in Threads |-> IF t \in active THEN FirstPc(adapter) ELSE "idle"]
  /\ \E op \in Ops, fqdn \in Names, value \in Values :
       call = [t \in Threads |->
                 IF t \in active
                 THEN [op |-> op, fqdn |-> fqdn, value |-> value] ELSE NoCall]
  /\ loc = [t \in Threads |-> NoLoc]
  /\ hist = [t \in Threads |->
               IF t \in active THEN [NoHist EXCEPT !.zone0 = zone] ELSE NoHist]
  /\ prev = [t \in Threads |-> NoPrev]

NextNames == \E t \in Threads : Netcup(t)

SpecNames == InitNames /\ [][NextNames]_vars

\* The keys domainIDMapping can hold: challenge names and the domain.
CachedKeys == Fqdns \cup {DomainOf(Fqdn1)}

\* The id getDomainIDByName resolves the domain to.
DomainID == 7

\* A checkdomain adapter whose domainIDMapping holds whatever the code
\* outside Present and CleanUp has stored in it.
InitCached ==
  /\ adapter = "checkdomain"
  /\ config = NewDNSProviderConfig(adapter, DefaultConfig(adapter)).config
  /\ built = Result(NewDNSProviderConfig(adapter, DefaultConfig(adapter)))
  /\ active = {1}
  /\ \E S \in SUBSET PreExisting :
       /\ zone = Numbered(adapter, S, 1)
       /\ nextId = Cardinality(S) + 1
  /\ session = {}
  /\ \E K \in SUBSET CachedKeys : cache = {<<k, DomainID>> : k \in K}
  /\ mu = 0
  /\ crashed = FALSE
  /\ ncalls = 0
  /\ pc = [t \in Threads |-> "idle"]
  /\ call = [t \in Threads |-> NoCall]
  /\ loc = [t \in Threads |-> NoLoc]
  /\ hist = [t \in Threads |-> NoHist]
  /\ prev = [t \in Threads |-> NoPrev]

NextCached == \E t \in Threads : StartCall(t) \/ Checkdomain(t)

SpecCached == InitCached /\ [][NextCached]_vars

\* ----------------------------------------------------------------- claims

Done(t) == pc[t] = "done"

\* The record a call is about, as the adapter's provider holds it.
Mine(z, t) ==
  Matching(z, StoredName(adapter, call[t].fqdn),
           StoredContent(adapter, call[t].value))

\* The call repeats the goroutine's previous call's arguments.
SameArgs(t) ==
  prev[t].fqdn = call[t].fqdn /\ prev[t].value = call[t].value

\* Two zones hold the same (name, content) records, each as often.
SameRecords(z1, z2) ==
  \A r \in z1 \cup z2 :
    Cardinality(Matching(z1, r.name, r.content))
      = Cardinality(Matching(z2, r.name, r.content))

\* C1: with a provider that injects no failure and a zone that does not hold
\* the record yet, Present called twice in sequence with the same arguments
\* returns nil both times and leaves exactly one TXT record with that
\* (name, value) in the zone, for every adapter.
C1_PresentTwiceLeavesOneRecord ==
  \A t \in Threads :
    ( /\ Done(t) /\ call[t].op = "Present"
      /\ prev[t].op = "Present" /\ SameArgs(t)
      /\ ~prev[t].fault /\ ~hist[t].fault
      /\ Mine(prev[t].zone0, t) = {} )
    => /\ prev[t].ret = Nil
       /\ loc[t].ret = Nil
       /\ Cardinality(Mine(zone, t)) = 1

\* C2: a successful Present followed by a successful CleanUp with the same
\* arguments leaves the zone's records as they were before Present, whatever
\* other records the zone held (the record itself not being among them).
C2_PresentCleanUpRoundTrip ==
  \A t \in Threads :
    ( /\ Done(t) /\ call[t].op = "CleanUp" /\ loc[t].ret = Nil
      /\ prev[t].op = "Present" /\ prev[t].ret = Nil /\ SameArgs(t)
      /\ Mine(prev[t].zone0, t) = {} )
    => SameRecords(zone, prev[t].zone0)

\* C3: in the adapters that own a map (hostingde, checkdomain), a Present
\* that returned nil has left an entry for fqdn in the map and a CleanUp
\* that returned nil has left none.
C3_CacheFollowsPresentAndCleanUp ==
  \A t \in Threads :
    ( /\ adapter \in {"hostingde", "checkdomain"}
      /\ Done(t) /\ loc[t].ret = Nil )
    => /\ call[t].op = "Present" => MapHas(cache, call[t].fqdn)
       /\ call[t].op = "CleanUp" => ~MapHas(cache, call[t].fqdn)

\* Both goroutines run their first call, a Present, for distinct fqdns whose
\* record the zone did not hold, and the provider injects no failure.
TwoPresents ==
  /\ call[1].op = "Present" /\ call[2].op = "Present"
  /\ call[1].fqdn # call[2].fqdn
  /\ \A t \in Threads :
       /\ prev[t].op = "none"
       /\ ~hist[t].fault
       /\ Mine(hist[t].zone0, t) = {}

\* C4: under every interleaving of two such Present calls the process keeps
\* running, both calls return nil, the zone holds exactly one record for each
\* of them, and (hostingde) the map holds for each fqdn the id of its record.
C4_ConcurrentPresentsIsolated ==
  TwoPresents =>
    /\ ~crashed
    /\ (Done(1) /\ Done(2)) =>
         \A t \in Threads :
           /\ loc[t].ret = Nil
           /\ Cardinality(Mine(zone, t)) = 1
           /\ adapter = "hostingde" =>
                \E r \in Mine(zone, t) : MapGet(cache, call[t].fqdn) = r.id

\* C5: in inwx and netcup, a call whose Login succeeded and that returns an
\* error has invoked Logout exactly once; no call invokes it twice.
C5_LogoutOnceAfterFailure ==
  \A t \in Threads :
    adapter \in {"inwx", "netcup"} =>
      /\ hist[t].logouts <= 1
      /\ (Done(t) /\ hist[t].loginOk /\ loc[t].ret # Nil) => hist[t].logouts = 1

C5_Witness ==
  \E t \in Threads :
    /\ adapter \in {"inwx", "netcup"}
    /\ Done(t) /\ hist[t].loginOk /\ loc[t].ret # Nil /\ hist[t].fault
    /\ hist[t].logouts = 1

\* A call is between its successful Login and its Logout.
InBracket(t) ==
  Running(t) /\ hist[t].loginOk /\ hist[t].logouts = 0

\* C6: in inwx and netcup the login/operate/logout brackets of concurrent
\* calls on one instance are serialized: at most one call is inside its
\* bracket at any time.
C6_BracketsSerialized ==
  adapter \in {"inwx", "netcup"} =>
    Cardinality({t \in Threads : InBracket(t)}) <= 1

\* C7: no read or write of the map is enabled at the same time as another
\* goroutine's write of it (every access being made under the mutex).
C7_NoCacheAccessOverlapsWrite ==
  \A t \in Threads : \A u \in Threads \ {t} :
    ~(pc[t] \in {"put", "del", "check"} /\ pc[u] \in {"put", "del"})

\* C8: in inwx and netcup a failing Logout leaves the call's result as the
\* return statement fixed it: nil after a successful operation, the
\* operation's error after a failed one.
C8_LogoutFailureKeepsResult ==
  \A t \in Threads :
    ( /\ adapter \in {"inwx", "netcup"}
      /\ Done(t) /\ hist[t].logoutFailed )
    => /\ loc[t].ret = hist[t].ret0
       /\ loc[t].ret # "ErrLogout"

C8_Witness ==
  \E t \in Threads :
    /\ adapter = "netcup" /\ Done(t) /\ hist[t].logoutFailed
    /\ loc[t].err = "ErrLogout"
    /\ loc[t].ret = "ErrUpdateDNSRecord"

\* C9: inwx Present returns nil, after one Logout, when the provider answers
\* CreateRecord with "Object exists", and an error for any other error answer.
C9_ObjectExistsIsSuccess ==
  \A t \in Threads :
    ( /\ adapter = "inwx" /\ Done(t) /\ call[t].op = "Present" )
    => /\ hist[t].answer = "Object exists" =>
            loc[t].ret = Nil /\ hist[t].logouts = 1
       /\ hist[t].answer \in {"ErrorResponse", "error"} =>
            loc[t].ret # Nil /\ hist[t].logouts = 1

C9_Witness ==
  \E t \in Threads :
    /\ adapter = "inwx" /\ Done(t) /\ call[t].op = "Present"
    /\ hist[t].answer = "Object exists"
    /\ loc[t].ret = Nil

\* The requests a CleanUp that meets no failure issues.
CleanUpRequests(a, fqdn, value) ==
  IF a = "hostingde"
  THEN <<Req("zoneConfigsFind", UnFqdn(AuthZone), <<>>, 0, <<>>),
         Req("zoneUpdate", UnFqdn(AuthZone), <<>>, 0,
             <<Rec(0, UnFqdn(fqdn), Quoted(value))>>)>>
  ELSE <<Req("getDomainIDByName", DomainOf(fqdn), <<>>, 0, <<>>),
         Req("checkNameservers", <<>>, <<>>, 0, <<>>),
         Req("deleteTXTRecord", fqdn, value, 0, <<>>)>>

IsPrefix(s, q) == Len(s) <= Len(q) /\ s = SubSeq(q, 1, Len(s))

\* C10: in hostingde and checkdomain the requests of a CleanUp depend on
\* (fqdn, value) alone, not on the map; and a CleanUp that meets no failure
\* deletes the record matching (name, value), entry in the map or not.
C10_CleanUpIgnoresCache ==
  \A t \in Threads :
    ( /\ adapter \in {"hostingde", "checkdomain"}
      /\ Done(t) /\ call[t].op = "CleanUp" )
    => LET want == CleanUpRequests(adapter, call[t].fqdn, call[t].value)
       IN /\ IsPrefix(hist[t].reqs, want)
          /\ loc[t].ret = Nil => hist[t].reqs = want
          /\ (~hist[t].fault /\ Mine(hist[t].zone0, t) # {}) =>
               loc[t].ret = Nil /\ Mine(zone, t) = {}

C10_Witness ==
  \E t \in Threads :
    /\ adapter = "hostingde" /\ Done(t) /\ call[t].op = "CleanUp"
    /\ ~MapHas(hist[t].cache0, call[t].fqdn)
    /\ Mine(hist[t].zone0, t) # {}
    /\ loc[t].ret = Nil /\ Mine(zone, t) = {}

\* A required field of the configuration is empty or missing.
MissingRequired(a, c) ==
  CASE a = "inwx" -> c.Username = EmptyString \/ c.Password = EmptyString
    [] a = "netcup" -> FALSE
    [] a = "hostingde" -> c.APIKey = EmptyString \/ c.ZoneName = EmptyString
    [] a = "checkdomain" -> c.Endpoint = "nil" \/ c.Token = EmptyString

\* C11: NewDNSProviderConfig returns an error and no adapter whenever a
\* required field of the (non-nil) configuration is empty or the endpoint is
\* missing; it returns either an adapter or an error, never both; and an
\* adapter it returns starts with a map without entries.
C11_ConstructionChecksConfig ==
  built.called =>
    /\ (~config.nil /\ MissingRequired(adapter, config)) =>
         built.provider = "nil" /\ built.err # Nil
    /\ built.provider = "nil" <=> built.err # Nil
    /\ (built.provider = "DNSProvider" /\ ncalls = 0) => cache = {}

C11_Witness ==
  /\ built.called /\ adapter = "hostingde" /\ ~config.nil
  /\ config.APIKey # EmptyString /\ config.ZoneName = EmptyString
  /\ built.provider = "nil" /\ built.err = "ErrZoneNameMissing"

\* C12: inwx CleanUp deletes only records whose name and value both equal
\* the request's: a TXT record with the same name and another value that
\* the zone held before CleanUp is still in the zone after it.
C12_InwxCleanUpKeepsOtherValues ==
  \A t \in Threads :
    ( /\ adapter = "inwx" /\ call[t].op = "CleanUp" /\ Done(t) )
    => \A r \in Named(hist[t].zone0, UnFqdn(call[t].fqdn)) :
         r.content # call[t].value => r \in zone

\* C13: hostingde Present returns an error whenever the update response
\* holds no record matching (unqualified fqdn, quoted value), also when the
\* map already holds an id for fqdn from an earlier Present.
C13_HostingdeUnconfirmedIsError ==
  \A t \in Threads :
    ( /\ adapter = "hostingde" /\ call[t].op = "Present" /\ Done(t)
      /\ hist[t].answer = "unconfirmed" )
    => loc[t].ret # Nil

\* The requests of a call's log that are calls of rpc.
Calls(t, rpc) == SelectSeq(hist[t].reqs, LAMBDA r : r.rpc = rpc)

\* The records of the lookup's response that CleanUp left in the zone.
Undeleted(t) ==
  {k \in 1..Len(loc[t].records) : loc[t].records[k].id \in Ids(zone)}

\* C14: when the lookup of inwx CleanUp returns records, CleanUp calls
\* DeleteRecord once for every one of them, in the response's order, also
\* after a deletion that failed, and returns an error if and only if a
\* deletion failed (a record of the response is still in the zone).
C14_InwxCleanUpDeletesAll ==
  \A t \in Threads :
    ( /\ adapter = "inwx" /\ call[t].op = "CleanUp" /\ Done(t)
      /\ loc[t].records # <<>> )
    => LET dels == Calls(t, "DeleteRecord")
       IN /\ Len(dels) = Len(loc[t].records)
          /\ \A k \in 1..Len(dels) : dels[k].id = loc[t].records[k].id
          /\ loc[t].ret # Nil <=> Undeleted(t) # {}

C14_Witness ==
  \E t \in Threads :
    /\ adapter = "inwx" /\ call[t].op = "CleanUp" /\ Done(t)
    /\ Len(loc[t].records) = 2
    /\ Undeleted(t) = {1}
    /\ Len(Calls(t, "DeleteRecord")) = 2
    /\ loc[t].ret = "ErrDelete"

\* The first request of the call that failed was the fetch of the zone
\* configuration (hostingde) or of the record list (netcup).
FetchFailed(t) ==
  /\ hist[t].failedAt > 0
  /\ hist[t].reqs[hist[t].failedAt].rpc \in {"zoneConfigsFind", "GetDNSRecords"}

\* The record netcup Present appends to the fetched list.
NetcupNewRecord(t) ==
  NetcupRecord(0, NetcupHostname(call[t].fqdn, loc[t].authZone),
               call[t].value, FALSE)

StepsOf(a, op) ==
  CASE a = "inwx" /\ op = "Present" -> <<"Login", "CreateRecord", "Logout">>
    [] a = "inwx" /\ op = "CleanUp" ->
         <<"Login", "Info", "DeleteRecord", "Logout">>
    [] a = "netcup" ->
         <<"Login", "GetDNSRecords", "UpdateDNSRecord", "Logout">>
    [] a = "hostingde" -> <<"zoneConfigsFind", "zoneUpdate">>
    [] a = "checkdomain" /\ op = "Present" ->
         <<"getDomainIDByName", "checkNameservers", "createRecord">>
    [] a = "checkdomain" /\ op = "CleanUp" ->
         <<"getDomainIDByName", "checkNameservers", "deleteTXTRecord">>
    [] OTHER -> <<>>

\* The place of rpc among the steps; 0 when the operation has no such step.
StepOf(steps, rpc) ==
  IF \E p \in 1..Len(steps) : steps[p] = rpc
  THEN CHOOSE p \in 1..Len(steps) : steps[p] = rpc
  ELSE 0

MutationRpcs == {"CreateRecord", "DeleteRecord", "UpdateDNSRecord"}

\* The requests of the call so far follow the order of the steps: each is a
\* step of the operation, comes after the steps before it (only Logout may
\* come with steps left out), and is issued once, DeleteRecord once per record.
InStepOrder(t) ==
  LET steps == StepsOf(adapter, call[t].op)
      reqs == hist[t].reqs
      at(k) == StepOf(steps, reqs[k].rpc)
  IN \A k \in 1..Len(reqs) :
       /\ at(k) > 0
       /\ \A j \in 1..(k - 1) :
            at(j) < at(k) \/ (reqs[j].rpc = "DeleteRecord" /\ at(j) = at(k))
       /\ reqs[k].rpc # "Logout" =>
            \A p \in 1..(at(k) - 1) : \E j \in 1..(k - 1) : at(j) = p

\* Mutations and Logout are issued only after the call's own successful
\* Login, mutations before its Logout.
InsideBracket(t) ==
  LET reqs == hist[t].reqs
  IN \A k \in 1..Len(reqs) :
       reqs[k].rpc \in MutationRpcs \cup {"Logout"} =>
         /\ hist[t].loginOk /\ reqs[1].rpc = "Login"
         /\ reqs[k].rpc \in MutationRpcs =>
              \A j \in 1..k : reqs[j].rpc # "Logout"

\* A failed zone resolution issues no request at all, a failed Login
\* nothing but the Login.
EarlyFailureIssuesNothing(t) ==
  /\ hist[t].ret0 = "ErrFindZone" => hist[t].reqs = <<>>
  /\ hist[t].ret0 = "ErrLogin" =>
       Len(hist[t].reqs) = 1 /\ hist[t].reqs[1].rpc = "Login"

\* netcup Present goes on after a failed GetDNSRecords.
NetcupFetchIgnored(t) ==
  /\ adapter = "netcup" /\ call[t].op = "Present"
  /\ hist[t].failedAt > 0
  /\ hist[t].reqs[hist[t].failedAt].rpc = "GetDNSRecords"

\* After the first failed request the call issues only the Logout of its
\* bracket and, in the loop of inwx CleanUp, the remaining DeleteRecords;
\* then it returns an error.  tolerated: the calls exempt from this.
AbortsAtFailure(t, tolerated) ==
  LET reqs == hist[t].reqs
      f == hist[t].failedAt
  IN (f > 0 /\ ~tolerated) =>
       /\ \A k \in (f + 1)..Len(reqs) :
            \/ reqs[k].rpc = "Logout"
            \/ reqs[k].rpc = "DeleteRecord" /\ reqs[f].rpc = "DeleteRecord"
       /\ Done(t) => loc[t].ret # Nil

C17_ShortNameReconstructsFqdn ==
  \A t \in Threads :
    ( /\ adapter = "netcup" /\ call[t].op = "Present"
      /\ loc[t].records # <<>> )
    => LET record == loc[t].records[Len(loc[t].records)]
       IN record.name \o Dot \o loc[t].authZone = call[t].fqdn

\* The lookup of an inwx CleanUp was answered, with no record.
InfoFoundNothing(t) ==
  /\ Len(Calls(t, "Info")) = 1
  /\ hist[t].ret0 # "ErrInfo"
  /\ loc[t].records = <<>>

\* C18: an inwx CleanUp whose lookup returns zero records returns nil and
\* calls no DeleteRecord; so a CleanUp repeated after a CleanUp that returned
\* nil returns nil too, when no request of it fails.
C18_InwxCleanUpOfAbsentRecord ==
  \A t \in Threads :
    ( /\ adapter = "inwx" /\ call[t].op = "CleanUp" /\ Done(t) )
    => /\ InfoFoundNothing(t) =>
            /\ loc[t].ret = Nil
            /\ Calls(t, "DeleteRecord") = <<>>
            /\ hist[t].logouts = 1
       /\ ( /\ prev[t].op = "CleanUp" /\ prev[t].ret = Nil /\ SameArgs(t)
            /\ ~hist[t].fault )
          => InfoFoundNothing(t) /\ loc[t].ret = Nil

C18_Witness ==
  \E t \in Threads :
    /\ adapter = "inwx" /\ call[t].op = "CleanUp" /\ Done(t)
    /\ prev[t].op = "CleanUp" /\ prev[t].ret = Nil /\ SameArgs(t)
    /\ Mine(prev[t].zone0, t) # {}
    /\ InfoFoundNothing(t)
    /\ Calls(t, "DeleteRecord") = <<>>
    /\ loc[t].ret = Nil

\* The call's GetDNSRecords was answered with the record list.
NetcupFetched(t) ==
  /\ Len(Calls(t, "GetDNSRecords")) = 1
  /\ hist[t].ret0 # "ErrGetDNSRecords"

\* C19: a netcup CleanUp whose (hostname, TXT, value) matches no record of
\* the fetched list returns an error, submits no UpdateDNSRecord and logs
\* out once; when there is a match, the one UpdateDNSRecord it submits holds
\* exactly one record, a matching record of the zone flagged for deletion.
C19_NetcupCleanUpByMatch ==
  \A t \in Threads :
    ( /\ adapter = "netcup" /\ call[t].op = "CleanUp" /\ Done(t)
      /\ NetcupFetched(t) )
    => LET updates == Calls(t, "UpdateDNSRecord")
       IN /\ Mine(hist[t].zone0, t) = {} =>
               /\ loc[t].ret = "ErrRecordIdx"
               /\ updates = <<>>
               /\ hist[t].logouts = 1
          /\ Mine(hist[t].zone0, t) # {} =>
               /\ Len(updates) = 1
               /\ Len(updates[1].recs) = 1
               /\ updates[1].recs[1].del
               /\ \E r \in Mine(hist[t].zone0, t) :
                    /\ updates[1].recs[1].id = r.id
                    /\ updates[1].recs[1].name = r.name
                    /\ updates[1].recs[1].content = r.content
               /\ hist[t].logouts = 1

C19_Witness ==
  \E t \in Threads :
    /\ adapter = "netcup" /\ call[t].op = "CleanUp" /\ Done(t)
    /\ NetcupFetched(t)
    /\ Cardinality(hist[t].zone0) = 2
    /\ Len(Calls(t, "UpdateDNSRecord")) = 1
    /\ loc[t].ret = Nil
    /\ Cardinality(zone) = 1 /\ Mine(zone, t) = {}

\* C20: a checkdomain CleanUp touches the map only after getDomainIDByName,
\* checkNameservers and deleteTXTRecord have all succeeded, and then removes
\* the entry of fqdn and nothing else; when one of them fails it returns an
\* error and the map is as it was before the call.
C20_CheckdomainCleanUpCacheFrame ==
  \A t \in Threads :
    ( /\ adapter = "checkdomain" /\ call[t].op = "CleanUp" )
    => /\ pc[t] \in {"lock", "del", "unlock"} =>
            /\ hist[t].reqs =
                 CleanUpRequests(adapter, call[t].fqdn, call[t].value)
            /\ hist[t].failedAt = 0
       /\ (Running(t) /\ pc[t] # "unlock") => cache = hist[t].cache0
       /\ (Done(t) /\ hist[t].failedAt > 0) =>
            loc[t].ret # Nil /\ cache = hist[t].cache0
       /\ (Done(t) /\ hist[t].failedAt = 0) =>
            /\ loc[t].ret = Nil
            /\ cache = MapDelete(hist[t].cache0, call[t].fqdn)

C20_Witness ==
  \E t \in Threads :
    /\ adapter = "checkdomain" /\ call[t].op = "CleanUp" /\ Done(t)
    /\ MapHas(hist[t].cache0, call[t].fqdn)
    /\ Len(Calls(t, "deleteTXTRecord")) = 1
    /\ loc[t].ret = "ErrDeleteTXTRecord"
    /\ MapHas(cache, call[t].fqdn)

\* The call's getZone was answered with the zone configuration.
HostingdeFetched(t) ==
  /\ Len(Calls(t, "zoneConfigsFind")) = 1
  /\ hist[t].ret0 # "ErrGetZone"

\* C21: in hostingde a Present or CleanUp whose getZone fails, and a Present
\* whose updateZone fails, leave the map as it was before the call; a
\* CleanUp whose getZone succeeded has removed the entry of fqdn (and nothing
\* else) by the time it submits the update, so the entry is absent also when
\* that CleanUp returns an error and the record is still in the zone.
C21_HostingdeCacheFrameOnFailure ==
  \A t \in Threads :
    ( /\ adapter = "hostingde" /\ call[t].op # "none" )
    => /\ (Done(t) /\ loc[t].ret = "ErrGetZone") =>
            cache = hist[t].cache0 /\ zone = hist[t].zone0
       /\ ( /\ call[t].op = "Present" /\ Done(t)
            /\ loc[t].ret = "ErrUpdateZone" ) =>
            cache = hist[t].cache0
       /\ ( /\ call[t].op = "CleanUp" /\ HostingdeFetched(t)
            /\ pc[t] \in {"updateZone", "done"} ) =>
            /\ cache = MapDelete(hist[t].cache0, call[t].fqdn)
            /\ ~MapHas(cache, call[t].fqdn)
       /\ (call[t].op = "CleanUp" /\ Calls(t, "zoneUpdate") # <<>>) =>
            ~MapHas(cache, call[t].fqdn)

C21_Witness ==
  \E t \in Threads :
    /\ adapter = "hostingde" /\ call[t].op = "CleanUp" /\ Done(t)
    /\ HostingdeFetched(t)
    /\ MapHas(hist[t].cache0, call[t].fqdn)
    /\ loc[t].ret = "ErrUpdateZone"
    /\ Mine(zone, t) # {}
    /\ ~MapHas(cache, call[t].fqdn)
====
